---- MODULE Spec2Model ----
(***************************************************************************)
(* State-machine model of the MapView adapter of react-native-web-maps.   *)
(* The source carries two variants of the component:                      *)
(*   variant "A"  src/unnamed/part_000 lines 18-232  (no location overlay)*)
(*   variant "B"  src/unnamed/part_000 lines 246-637 (location overlay)   *)
(* One React render + commit + effect flush is one atomic step: all code  *)
(* runs on the UI thread, and only geolocation callbacks and widget       *)
(* events arrive as separate tasks.                                       *)
(*                                                                         *)
(* Numbers: angles are integers counted in 2^-21 degree (Unit per degree),*)
(* so that 360 / 2^z is exact for every zoom level z in 0..21.            *)
(***************************************************************************)
EXTENDS Integers, Sequences, FiniteSets, TLC

VARIABLES
    variant,                \* "A" | "B": which of the two source variants
    mounted,                \* the component is mounted
    threw,                  \* a handler or effect raised a TypeError
    callbacks,              \* the outward callback props the caller supplied
    region,                 \* prop region: <<>> (absent) or <<R>>
    initialRegion,          \* prop initialRegion: <<>> or <<R>>
    showsUserLocation,      \* prop (variant B)
    showsMyLocationButton,  \* prop (variant B)
    customMapStyle,         \* prop: TRUE when a style descriptor is supplied
    geolocation,            \* navigator.geolocation is available
    zoomEnabled,            \* prop zoomEnabled
    provideOptions,         \* prop options: the caller's overrides
    defaultOptions,         \* content of the shared DEFAULT_OPTIONS object
    options,                \* useMemo options: what the widget is handed
    center,                 \* useState center {lat, lng}
    zoom,                   \* useState zoom
    deltaRatio,             \* useMemo deltaRatio (A) / deltaRadio (B)
    instance,               \* useRef instance: "null" | "map"
    mapLoaded,              \* useState mapLoaded (variant B)
    hasIdleTriggerd,        \* useRef hasIdleTriggerd
    widget,                 \* live view of the map widget
    userLocationMarker,     \* useRef userLocationMarker: 0 (null) or marker id
    attached,               \* ids of the markers attached to the map
    markerPos,              \* position of each marker created so far
    markersCreated,         \* number of google.maps.Marker objects created
    watches,                \* ids of the active geolocation watches
    watchId,                \* watch id held by the effect cleanup, 0 if none
    watchesStarted,         \* number of watchPosition calls so far
    pendingOneShot,         \* in-flight getCurrentPosition requests (effect)
    oneShotsIssued,         \* number of getCurrentPosition calls (effect)
    locationButton,         \* "none" | "enabled" | "disabled"
    pendingButton,          \* in-flight getCurrentPosition requests (button)
    lastEvent,              \* the handler that ran in the last step
    lastCalls,              \* outward callback invocations of the last step
    widgetOps,              \* widget operations issued by the last step
    lastCamera,             \* <<>> or <<result of the last getCamera()>>
    idleCount,              \* idle events handled so far
    nEvents,                \* widget events handled so far
    nSettled,               \* non-suppressed zoom-changed/idle events so far
    nDrag,                  \* drag events handled so far
    nRegionChange,          \* onRegionChange invocations so far
    nRegionChangeComplete   \* onRegionChangeComplete invocations so far

optionVars  == <<zoomEnabled, provideOptions, defaultOptions, options>>
propVars    == <<variant, mounted, threw, callbacks, region, initialRegion,
                 showsUserLocation, showsMyLocationButton, customMapStyle,
                 geolocation, optionVars>>
viewVars    == <<center, zoom, deltaRatio>>
widgetVars  == <<instance, mapLoaded, hasIdleTriggerd, widget>>
markerVars  == <<userLocationMarker, attached, markerPos, markersCreated>>
geoVars     == <<watches, watchId, watchesStarted, pendingOneShot,
                 oneShotsIssued>>
buttonVars  == <<locationButton, pendingButton>>
outVars     == <<lastEvent, lastCalls, widgetOps, lastCamera>>
countVars   == <<idleCount, nEvents, nSettled, nDrag, nRegionChange,
                 nRegionChangeComplete>>
vars        == <<propVars, viewVars, widgetVars, markerVars, geoVars,
                 buttonVars, outVars, countVars>>

----------------------------------------------------------------------------
(* Bounds of the model                                                     *)

MaxEvents  == 3     \* widget events (zoom-changed, idle, drag) per behaviour
MaxMarkers == 2     \* marker objects created per behaviour
MaxWatches == 2     \* watchPosition calls per behaviour
MaxPending == 2     \* one-shot requests in flight at a time

----------------------------------------------------------------------------
(* Numbers                                                                 *)

Unit == 2^21                    \* model units per degree
NaN  == 0 - 2^30                \* stands for the IEEE NaN
Undefined == 0 - 1              \* stands for an undefined zoom
MinZoom == 0
MaxZoom == 21
WorldWidthDeg == 360
WorldWidth == WorldWidthDeg * Unit
\* floor(WorldWidth * sqrt(2)): d * 2^z <= WorldWidth * sqrt(2) is
\* log2(WorldWidth / d) >= z - 1/2
RoundingThreshold == 1067695488

RECURSIVE GCD(_, _)
GCD(a, b) == IF b = 0 THEN a ELSE GCD(b, a % b)

\* a / b as a reduced fraction <<numerator, denominator>>, for a, b > 0
Ratio(a, b) == <<a \div GCD(a, b), b \div GCD(a, b)>>

\* utils.calcZoom: log2(360 / longitudeDelta) rounded to the nearest
\* integer and clamped to [MinZoom, MaxZoom]; a delta <= 0 is the maximum
\* zoom.
calcZoom(longitudeDelta) ==
    IF longitudeDelta <= 0 THEN MaxZoom
    ELSE LET S == {z \in MinZoom..MaxZoom :
                      longitudeDelta <= RoundingThreshold \div (2^z)}
         IN  IF S = {} THEN MinZoom
             ELSE CHOOSE z \in S : \A y \in S : y <= z

\* utils.zoomReverseDelta: longitudeDelta = 360 / 2^zoom,
\* latitudeDelta = longitudeDelta * ratio; an undefined zoom gives NaN.
zoomReverseDelta(z, ratio) ==
    IF z = Undefined
    THEN [latitudeDelta |-> NaN, longitudeDelta |-> NaN]
    ELSE LET lngDelta == WorldWidth \div (2^z)
         IN  [latitudeDelta  |-> (lngDelta * ratio[1]) \div ratio[2],
              longitudeDelta |-> lngDelta]

----------------------------------------------------------------------------
(* Input domains                                                           *)

Reg(lat, lng, latD, lngD) ==
    [latitude |-> lat, longitude |-> lng,
     latitudeDelta |-> latD, longitudeDelta |-> lngD]

\* 37, -122, 0.125 x 0.125 degrees; 10, 20, 40 x 20; 5, 45, 45 x 90
Regions == { Reg(37 * Unit, (0 - 122) * Unit, Unit \div 8, Unit \div 8),
             Reg(10 * Unit, 20 * Unit, 40 * Unit, 20 * Unit),
             Reg(5 * Unit, 45 * Unit, 45 * Unit, 90 * Unit) }

OptRegions == {<<>>} \cup {<<r>> : r \in Regions}

\* config.DEFAULT_REGION
DEFAULT_REGION == Reg(0, 0, 90 * Unit, 180 * Unit)

\* live views the widget can be in after load
WidgetViews ==
    { [center |-> [lat |-> 37 * Unit, lng |-> (0 - 122) * Unit],
       zoom |-> 11, tilt |-> 0, heading |-> 0],
      [center |-> [lat |-> 10 * Unit, lng |-> 20 * Unit],
       zoom |-> 4, tilt |-> 45, heading |-> 90],
      [center |-> [lat |-> 48 * Unit, lng |-> 2 * Unit],
       zoom |-> 21, tilt |-> 30, heading |-> 180] }

\* positions the geolocation API reports
Positions == { [lat |-> 48 * Unit, lng |-> 2 * Unit],
               [lat |-> 10 * Unit, lng |-> 20 * Unit] }

CallbackSets == { {"onMapReady", "onRegionChange", "onRegionChangeComplete"},
                  {"onRegionChangeComplete"},
                  {} }

----------------------------------------------------------------------------
(* Widget options                                                          *)

\* an options object is a function from its keys to their values
NoOptions == [k \in {} |-> "undefined"]

\* {...a, ...b} and Object.assign(a, b): the keys of b win
Overlay(a, b) ==
    [k \in DOMAIN a \cup DOMAIN b |-> IF k \in DOMAIN b THEN b[k] ELSE a[k]]

\* config.DEFAULT_OPTIONS as the module is loaded
DEFAULT_OPTIONS ==
    [k \in {"clickableIcons"} |-> "false"]

\* options the caller may pass
ProvideOptions ==
    { NoOptions,
      [k \in {"fullscreenControl"} |-> "true"],
      [k \in {"gestureHandling"} |-> "greedy"] }

\* the computed values; zoomControlEnabled, zoomTapEnabled and mapType keep
\* their defaults, minZoomLevel and maxZoomLevel stay absent
ComputedOptions(zoomOn, style) ==
    [k \in {"gestureHandling", "zoomControl", "disableDoubleClickZoom",
            "mapTypeId", "styles", "minZoom", "maxZoom"} |->
        CASE k = "gestureHandling" -> (IF zoomOn THEN "auto" ELSE "none")
          [] k = "zoomControl" -> "true"
          [] k = "disableDoubleClickZoom" -> "false"
          [] k = "mapTypeId" -> "roadmap"
          [] k = "styles" -> (IF style THEN "customMapStyle" ELSE "undefined")
          [] OTHER -> "undefined"]

\* body of the options memo: the value handed to the widget
\* A: {...DEFAULT_OPTIONS, computed, ...provideOptions}
\* B: Object.assign(DEFAULT_OPTIONS, computed, provideOptions)
ComputeOptions(defaults, zoomOn, style, provided) ==
    Overlay(Overlay(defaults, ComputedOptions(zoomOn, style)), provided)

\* Object.assign writes into its first argument, the spread builds a new
\* object
MemoWritesDefaults(v) == v = "B"

\* content of DEFAULT_OPTIONS after the memo ran
DefaultsAfterCompute(v, defaults, zoomOn, style, provided) ==
    IF MemoWritesDefaults(v)
    THEN ComputeOptions(defaults, zoomOn, style, provided)
    ELSE defaults

----------------------------------------------------------------------------
(* Construction                                                            *)

\* region ?? initialRegion ?? DEFAULT_REGION (all Region fields are set)
BaseRegion(reg, initReg) ==
    IF reg # <<>> THEN reg[1]
    ELSE IF initReg # <<>> THEN initReg[1]
    ELSE DEFAULT_REGION

\* useState initialiser of center
InitialCenter(reg, initReg) ==
    [lat |-> BaseRegion(reg, initReg).latitude,
     lng |-> BaseRegion(reg, initReg).longitude]

\* useState initialiser of zoom
InitialZoom(reg, initReg) == calcZoom(BaseRegion(reg, initReg).longitudeDelta)

\* body of the deltaRatio / deltaRadio memo
ComputeDeltaRatio(reg, initReg) ==
    Ratio(BaseRegion(reg, initReg).latitudeDelta,
          BaseRegion(reg, initReg).longitudeDelta)

\* dependency list of the memo: [region, initialRegion] in variant A,
\* [region] in variant B
MemoDependsOnInitialRegion(v) == v = "A"

InitFrom(variants, cbSets, regs, initRegs, shows, buttons, styles, geos) ==
    /\ variant \in variants
    /\ mounted = TRUE
    /\ threw = FALSE
    /\ callbacks \in cbSets
    /\ region \in regs
    /\ initialRegion \in initRegs
    /\ showsUserLocation \in (IF variant = "B" THEN shows ELSE {FALSE})
    /\ showsMyLocationButton \in (IF variant = "B" THEN buttons ELSE {FALSE})
    /\ customMapStyle \in styles
    /\ geolocation \in geos
    /\ zoomEnabled = TRUE
    /\ provideOptions = NoOptions
    /\ options = ComputeOptions(DEFAULT_OPTIONS, TRUE, customMapStyle,
                                NoOptions)
    /\ defaultOptions = DefaultsAfterCompute(variant, DEFAULT_OPTIONS, TRUE,
                                             customMapStyle, NoOptions)
    /\ center = InitialCenter(region, initialRegion)
    /\ zoom = InitialZoom(region, initialRegion)
    /\ deltaRatio = ComputeDeltaRatio(region, initialRegion)
    /\ instance = "null"
    /\ mapLoaded = FALSE
    /\ hasIdleTriggerd = FALSE
    /\ widget \in WidgetViews
    /\ userLocationMarker = 0
    /\ attached = {}
    /\ markerPos = <<>>
    /\ markersCreated = 0
    /\ watches = {}
    /\ watchId = 0
    /\ watchesStarted = 0
    /\ pendingOneShot = 0
    /\ oneShotsIssued = 0
    /\ locationButton = "none"
    /\ pendingButton = 0
    /\ lastEvent = "construct"
    /\ lastCalls = <<>>
    /\ widgetOps = <<>>
    /\ lastCamera = <<>>
    /\ idleCount = 0
    /\ nEvents = 0
    /\ nSettled = 0
    /\ nDrag = 0
    /\ nRegionChange = 0
    /\ nRegionChangeComplete = 0

----------------------------------------------------------------------------
(* Helpers shared by the handlers                                          *)

Out(ev, calls, ops, cam) ==
    /\ lastEvent' = ev
    /\ lastCalls' = calls
    /\ widgetOps' = ops
    /\ lastCamera' = cam

Count(calls, name) == Len(SelectSeq(calls, LAMBDA c : c.cb = name))

Tally(calls) ==
    /\ nRegionChange' = nRegionChange + Count(calls, "onRegionChange")
    /\ nRegionChangeComplete' =
           nRegionChangeComplete + Count(calls, "onRegionChangeComplete")

\* f?.(...) : the call happens only when the caller supplied the callback
Supplied(calls) == SelectSeq(calls, LAMBDA c : c.cb \in callbacks)

RegionCall(name, r) == [cb |-> name, region |-> r, isGesture |-> TRUE]

\* instance.current?.getZoom()
LiveZoom == IF instance = "null" THEN Undefined ELSE widget.zoom

\* zoom == null (A) / zoom === null (B): only the loose comparison also
\* matches undefined
ZoomIsNull(v, z) == v = "A" /\ z = Undefined

\* the two deltas put into each other's field
getCurrentRegion_deltasSwapped ==
    LET z     == LiveZoom
        delta == IF ZoomIsNull(variant, z) THEN <<>>
                 ELSE <<zoomReverseDelta(z, deltaRatio)>>
    IN  [latitude       |-> IF instance = "null" THEN 0
                            ELSE widget.center.lat,
         latitudeDelta  |-> IF delta = <<>> THEN 0
                            ELSE delta[1].longitudeDelta,
         longitude      |-> IF instance = "null" THEN 0
                            ELSE widget.center.lng,
         longitudeDelta |-> IF delta = <<>> THEN 0
                            ELSE delta[1].latitudeDelta]

\* getCurrentRegion()
getCurrentRegion ==
    LET z     == LiveZoom
        delta == IF ZoomIsNull(variant, z) THEN <<>>
                 ELSE <<zoomReverseDelta(z, deltaRatio)>>
    IN  [latitude       |-> IF instance = "null" THEN 0
                            ELSE widget.center.lat,
         latitudeDelta  |-> IF delta = <<>> THEN 0
                            ELSE delta[1].latitudeDelta,
         longitude      |-> IF instance = "null" THEN 0
                            ELSE widget.center.lng,
         longitudeDelta |-> IF delta = <<>> THEN 0
                            ELSE delta[1].longitudeDelta]

\* the two invocations in the wrong order
onChangeComplete_swapped ==
    Supplied(<<RegionCall("onRegionChangeComplete", getCurrentRegion),
               RegionCall("onRegionChange", getCurrentRegion)>>)

\* the callbacks onChangeComplete invokes, in order
onChangeComplete ==
    Supplied(<<RegionCall("onRegionChange", getCurrentRegion),
               RegionCall("onRegionChangeComplete", getCurrentRegion)>>)

----------------------------------------------------------------------------
(* Location overlay (variant B): marker, watch and one-shot request        *)

\* marker cleanup: userLocationMarker.current.setMap(null); ... = null
RemoveMarker ==
    /\ attached' = attached \ {userLocationMarker}
    /\ userLocationMarker' = 0
    /\ UNCHANGED <<markerPos, markersCreated>>

\* the effect without its cleanup function: the previous watch is never
\* cleared
LocationEffect_noCleanup(shows, loaded, inst) ==
    IF ~shows \/ ~geolocation
    THEN /\ RemoveMarker
         /\ UNCHANGED geoVars
    ELSE IF ~loaded \/ inst = "null"
    THEN /\ UNCHANGED geoVars
         /\ UNCHANGED markerVars
    ELSE /\ watchesStarted < MaxWatches
         /\ pendingOneShot < MaxPending
         /\ pendingOneShot' = pendingOneShot + 1
         /\ oneShotsIssued' = oneShotsIssued + 1
         /\ watchesStarted' = watchesStarted + 1
         /\ watchId' = watchesStarted + 1
         /\ watches' = watches \cup {watchesStarted + 1}
         /\ UNCHANGED markerVars

\* the effect "Handle user location updates" with its dependencies
\* [showsUserLocation, mapLoaded] changed: cleanup of the previous run,
\* then the body with the new values shows / loaded / inst
LocationEffect(shows, loaded, inst) ==
    LET cleared == watches \ {watchId}      \* clearWatch(watchId)
    IN  IF ~shows \/ ~geolocation
        THEN /\ RemoveMarker
             /\ watches' = cleared
             /\ watchId' = 0
             /\ UNCHANGED <<watchesStarted, pendingOneShot, oneShotsIssued>>
        ELSE IF ~loaded \/ inst = "null"
        THEN /\ watches' = cleared
             /\ watchId' = 0
             /\ UNCHANGED <<watchesStarted, pendingOneShot, oneShotsIssued>>
             /\ UNCHANGED markerVars
        ELSE /\ watchesStarted < MaxWatches
             /\ pendingOneShot < MaxPending
             /\ pendingOneShot' = pendingOneShot + 1
             /\ oneShotsIssued' = oneShotsIssued + 1
             /\ watchesStarted' = watchesStarted + 1
             /\ watchId' = watchesStarted + 1
             /\ watches' = cleared \cup {watchesStarted + 1}
             /\ UNCHANGED markerVars

\* the marker operation the cleanup issues
RemoveMarkerOps ==
    IF userLocationMarker # 0
    THEN <<[op |-> "Marker.setMap", pos |-> markerPos[userLocationMarker]]>>
    ELSE <<>>

\* marker operations of one run of the effect
LocationEffectOps(shows) ==
    IF ~shows \/ ~geolocation THEN RemoveMarkerOps ELSE <<>>

\* unmount: the cleanups of the two effects (variant B)
Teardown ==
    /\ RemoveMarker
    /\ watches' = watches \ {watchId}
    /\ watchId' = 0
    /\ UNCHANGED <<watchesStarted, pendingOneShot, oneShotsIssued>>

\* every fix creates a marker: the reposition branch is lost
updateUserLocation_alwaysNew(pos) ==
    IF instance # "null"
    THEN /\ markersCreated < MaxMarkers
         /\ markersCreated' = markersCreated + 1
         /\ markerPos' = Append(markerPos, pos)
         /\ attached' = attached \cup {markersCreated + 1}
         /\ userLocationMarker' = markersCreated + 1
    ELSE UNCHANGED markerVars

\* updateUserLocation(position)
updateUserLocation(pos) ==
    IF userLocationMarker = 0 /\ instance # "null"
    THEN /\ markersCreated < MaxMarkers
         /\ markersCreated' = markersCreated + 1
         /\ markerPos' = Append(markerPos, pos)
         /\ attached' = attached \cup {markersCreated + 1}
         /\ userLocationMarker' = markersCreated + 1
    ELSE IF userLocationMarker # 0
    THEN /\ markerPos' = [markerPos EXCEPT ![userLocationMarker] = pos]
         /\ UNCHANGED <<userLocationMarker, attached, markersCreated>>
    ELSE UNCHANGED markerVars

\* the marker operation updateUserLocation(position) issues
updateUserLocationOps(pos) ==
    IF userLocationMarker = 0 /\ instance # "null"
    THEN <<[op |-> "new Marker", pos |-> pos]>>
    ELSE IF userLocationMarker # 0
    THEN <<[op |-> "Marker.setPosition", pos |-> pos]>>
    ELSE <<>>

----------------------------------------------------------------------------
(* Widget events                                                           *)

\* onLoad(map)
OnLoad ==
    /\ mounted /\ instance = "null"
    /\ instance' = "map"
    /\ IF variant = "A"
       THEN /\ Out("onLoad", Supplied(<<[cb |-> "onMapReady"]>>),
                   IF customMapStyle THEN <<[op |-> "setOptions"]>>
                   ELSE <<>>, <<>>)
            /\ UNCHANGED <<mapLoaded, locationButton>>
            /\ UNCHANGED <<markerVars, geoVars>>
       ELSE /\ mapLoaded' = TRUE
            /\ locationButton' =
                   IF showsMyLocationButton THEN "enabled" ELSE "none"
            /\ Out("onLoad", Supplied(<<[cb |-> "onMapReady"]>>),
                   (IF showsMyLocationButton THEN <<[op |-> "controls.push"]>>
                    ELSE <<>>) \o LocationEffectOps(showsUserLocation),
                   <<>>)
            /\ LocationEffect(showsUserLocation, TRUE, "map")
    /\ UNCHANGED <<propVars, viewVars, hasIdleTriggerd, widget,
                   pendingButton, countVars>>

\* the guard left out: zoom-changed is reported also before load
ZoomChangedBeforeLoad_unguarded == FALSE

\* if (instance.current == null) return
ZoomChangedBeforeLoad == instance = "null"

\* onZoomChanged()
OnZoomChanged ==
    /\ mounted /\ nEvents < MaxEvents
    /\ nEvents' = nEvents + 1
    /\ IF ZoomChangedBeforeLoad
       THEN /\ Out("onZoomChanged", <<>>, <<>>, <<>>)
            /\ UNCHANGED <<nSettled, nRegionChange, nRegionChangeComplete>>
       ELSE /\ Out("onZoomChanged", onChangeComplete, <<>>, <<>>)
            /\ Tally(onChangeComplete)
            /\ nSettled' = nSettled + 1
    /\ UNCHANGED <<propVars, viewVars, widgetVars, markerVars, geoVars,
                   buttonVars, idleCount, nDrag>>

\* the one-shot flag ignored: the startup idle is reported as well
FirstIdle_ignored == FALSE

\* if (!hasIdleTriggerd.current)
FirstIdle == ~hasIdleTriggerd

\* onIdle()
OnIdle ==
    /\ mounted /\ nEvents < MaxEvents
    /\ nEvents' = nEvents + 1
    /\ idleCount' = idleCount + 1
    /\ IF FirstIdle
       THEN /\ hasIdleTriggerd' = TRUE
            /\ Out("onIdle", <<>>, <<>>, <<>>)
            /\ UNCHANGED <<nSettled, nRegionChange, nRegionChangeComplete>>
       ELSE /\ Out("onIdle", onChangeComplete, <<>>, <<>>)
            /\ Tally(onChangeComplete)
            /\ nSettled' = nSettled + 1
            /\ UNCHANGED hasIdleTriggerd
    /\ UNCHANGED <<propVars, viewVars, instance, mapLoaded, widget,
                   markerVars, geoVars, buttonVars, nDrag>>

\* a drag reported like a settle
onDragCalls_settle ==
    Supplied(<<RegionCall("onRegionChange", getCurrentRegion),
               RegionCall("onRegionChangeComplete", getCurrentRegion)>>)

\* the callbacks onDrag invokes
onDragCalls == Supplied(<<RegionCall("onRegionChange", getCurrentRegion)>>)

\* onDrag()
OnDrag ==
    /\ mounted /\ nEvents < MaxEvents
    /\ nEvents' = nEvents + 1
    /\ nDrag' = nDrag + 1
    /\ Out("onDrag", onDragCalls, <<>>, <<>>)
    /\ Tally(onDragCalls)
    /\ UNCHANGED <<propVars, viewVars, widgetVars, markerVars, geoVars,
                   buttonVars, idleCount, nSettled>>

\* onClick(e): the body is commented out
OnClick ==
    /\ mounted
    /\ Out("onClick", <<>>, <<>>, <<>>)
    /\ UNCHANGED <<propVars, viewVars, widgetVars, markerVars, geoVars,
                   buttonVars, countVars>>

\* onDblClick(e): the body is commented out
OnDblClick ==
    /\ mounted
    /\ Out("onDblClick", <<>>, <<>>, <<>>)
    /\ UNCHANGED <<propVars, viewVars, widgetVars, markerVars, geoVars,
                   buttonVars, countVars>>

\* the user or the widget itself moves the live view (no handler runs)
WidgetGesture ==
    /\ mounted /\ instance = "map"
    /\ widget' \in WidgetViews \ {widget}
    /\ Out("gesture", <<>>, <<>>, <<>>)
    /\ UNCHANGED <<propVars, viewVars, instance, mapLoaded, hasIdleTriggerd,
                   markerVars, geoVars, buttonVars, countVars>>

\* the user zooms the widget to level z (no handler runs)
WidgetZoom(z) ==
    /\ mounted /\ instance = "map"
    /\ z # widget.zoom
    /\ widget' = [widget EXCEPT !.zoom = z]
    /\ Out("zoom", <<>>, <<>>, <<>>)
    /\ UNCHANGED <<propVars, viewVars, instance, mapLoaded, hasIdleTriggerd,
                   markerVars, geoVars, buttonVars, countVars>>

----------------------------------------------------------------------------
(* Prop changes and unmount                                                *)

\* the argument the region effect hands to calcZoom:
\* region.longitudeDelta in variant A, region!.longitude in variant B
ZoomArgument(v, r) == IF v = "A" THEN r.longitudeDelta ELSE r.longitude

\* the caller passes a new region prop: re-render (memo) and the
\* useUpdateEffect on [region]
SetRegion(r) ==
    /\ mounted
    /\ r # <<>> \/ region # <<>>
    /\ region' = r
    /\ deltaRatio' = ComputeDeltaRatio(r, initialRegion)
    /\ IF r # <<>>
       THEN /\ center' = [lat |-> r[1].latitude, lng |-> r[1].longitude]
            /\ zoom' = calcZoom(ZoomArgument(variant, r[1]))
            /\ UNCHANGED <<mounted, threw, markerVars, geoVars>>
       ELSE IF variant = "A"
       THEN UNCHANGED <<center, zoom, mounted, threw, markerVars, geoVars>>
       ELSE \* region!.latitude on undefined: TypeError in the effect,
            \* React unmounts the tree
            /\ threw' = TRUE
            /\ mounted' = FALSE
            /\ Teardown
            /\ UNCHANGED <<center, zoom>>
    /\ Out("setRegion", <<>>,
           IF r = <<>> /\ variant = "B" THEN RemoveMarkerOps ELSE <<>>, <<>>)
    /\ UNCHANGED <<variant, callbacks, initialRegion, showsUserLocation,
                   showsMyLocationButton, customMapStyle, geolocation,
                   optionVars, widgetVars, buttonVars, countVars>>

\* the options memo runs again because one of its dependencies changed
RecomputeOptions(zoomOn, provided) ==
    /\ options' = ComputeOptions(defaultOptions, zoomOn, customMapStyle,
                                 provided)
    /\ defaultOptions' = DefaultsAfterCompute(variant, defaultOptions, zoomOn,
                                              customMapStyle, provided)

\* the caller passes a new options prop
SetProvideOptions(p) ==
    /\ mounted
    /\ p # NoOptions \/ provideOptions # NoOptions
    /\ provideOptions' = p
    /\ RecomputeOptions(zoomEnabled, p)
    /\ Out("setOptions", <<>>, <<>>, <<>>)
    /\ UNCHANGED <<variant, mounted, threw, callbacks, region, initialRegion,
                   showsUserLocation, showsMyLocationButton, customMapStyle,
                   geolocation, zoomEnabled, viewVars, widgetVars,
                   markerVars, geoVars, buttonVars, countVars>>

\* the caller toggles zoomEnabled
SetZoomEnabled(b) ==
    /\ mounted
    /\ b # zoomEnabled
    /\ zoomEnabled' = b
    /\ RecomputeOptions(b, provideOptions)
    /\ Out("setZoomEnabled", <<>>, <<>>, <<>>)
    /\ UNCHANGED <<variant, mounted, threw, callbacks, region, initialRegion,
                   showsUserLocation, showsMyLocationButton, customMapStyle,
                   geolocation, provideOptions, viewVars, widgetVars,
                   markerVars, geoVars, buttonVars, countVars>>

\* another MapView instance of the same module renders with the options p:
\* its memo reads, and in variant B writes, the same DEFAULT_OPTIONS object,
\* which in variant B is also the object this instance handed to the widget
SiblingRender(p) ==
    /\ defaultOptions' = DefaultsAfterCompute(variant, defaultOptions, TRUE,
                                              FALSE, p)
    /\ options' = IF MemoWritesDefaults(variant) THEN defaultOptions'
                  ELSE options
    /\ Out("siblingRender", <<>>, <<>>, <<>>)
    /\ UNCHANGED <<variant, mounted, threw, callbacks, region, initialRegion,
                   showsUserLocation, showsMyLocationButton, customMapStyle,
                   geolocation, zoomEnabled, provideOptions, viewVars,
                   widgetVars, markerVars, geoVars, buttonVars, countVars>>

\* the caller passes a new initialRegion prop: re-render only
SetInitialRegion(r) ==
    /\ mounted
    /\ r # initialRegion
    /\ initialRegion' = r
    /\ deltaRatio' = IF MemoDependsOnInitialRegion(variant)
                     THEN ComputeDeltaRatio(region, r)
                     ELSE deltaRatio
    /\ Out("setInitialRegion", <<>>, <<>>, <<>>)
    /\ UNCHANGED <<variant, mounted, threw, callbacks, region,
                   showsUserLocation, showsMyLocationButton, customMapStyle,
                   geolocation, optionVars, center, zoom, widgetVars,
                   markerVars, geoVars, buttonVars, countVars>>

\* the caller toggles showsUserLocation (a prop of variant B only)
SetShowsUserLocation(b) ==
    /\ mounted /\ variant = "B"
    /\ b # showsUserLocation
    /\ showsUserLocation' = b
    /\ LocationEffect(b, mapLoaded, instance)
    /\ Out("setShowsUserLocation", <<>>, LocationEffectOps(b), <<>>)
    /\ UNCHANGED <<variant, mounted, threw, callbacks, region, initialRegion,
                   showsMyLocationButton, customMapStyle, geolocation,
                   optionVars, viewVars, widgetVars, buttonVars, countVars>>

\* the component is torn down
Unmount ==
    /\ mounted
    /\ mounted' = FALSE
    /\ IF variant = "B" THEN Teardown ELSE UNCHANGED <<markerVars, geoVars>>
    /\ Out("unmount", <<>>,
           IF variant = "B" THEN RemoveMarkerOps ELSE <<>>, <<>>)
    /\ UNCHANGED <<variant, threw, callbacks, region, initialRegion,
                   showsUserLocation, showsMyLocationButton, customMapStyle,
                   geolocation, optionVars, viewVars, widgetVars, buttonVars,
                   countVars>>

----------------------------------------------------------------------------
(* Geolocation callbacks                                                   *)

\* success callback of the effect's getCurrentPosition
OneShotFix(pos) ==
    /\ pendingOneShot > 0
    /\ pendingOneShot' = pendingOneShot - 1
    /\ updateUserLocation(pos)
    /\ Out("oneShotFix", <<>>, updateUserLocationOps(pos), <<>>)
    /\ UNCHANGED <<propVars, viewVars, widgetVars, watches, watchId,
                   watchesStarted, oneShotsIssued, buttonVars, countVars>>

\* error callback of the effect's getCurrentPosition: handleError
OneShotError ==
    /\ pendingOneShot > 0
    /\ pendingOneShot' = pendingOneShot - 1
    /\ Out("oneShotError", <<>>, <<>>, <<>>)
    /\ UNCHANGED <<propVars, viewVars, widgetVars, markerVars, watches,
                   watchId, watchesStarted, oneShotsIssued, buttonVars,
                   countVars>>

\* success callback of an active watch
WatchFix(pos) ==
    /\ watches # {}
    /\ updateUserLocation(pos)
    /\ Out("watchFix", <<>>, updateUserLocationOps(pos), <<>>)
    /\ UNCHANGED <<propVars, viewVars, widgetVars, geoVars, buttonVars,
                   countVars>>

\* error callback of an active watch: handleError
WatchError ==
    /\ watches # {}
    /\ Out("watchError", <<>>, <<>>, <<>>)
    /\ UNCHANGED <<propVars, viewVars, widgetVars, markerVars, geoVars,
                   buttonVars, countVars>>

----------------------------------------------------------------------------
(* Locate-me control (variant B)                                           *)

\* if (locationButton.disabled) return
ButtonDisabled == locationButton = "disabled"

\* the marker is not consulted: every click asks for a fresh position
MarkerKnown_ignored == FALSE

\* if (userLocationMarker.current) with a position to read
MarkerKnown == userLocationMarker # 0

\* click listener of locationButton
ButtonClick ==
    /\ mounted /\ locationButton # "none"
    /\ IF ButtonDisabled
       THEN /\ Out("buttonClick", <<>>, <<>>, <<>>)
            /\ UNCHANGED buttonVars
       ELSE IF MarkerKnown
       THEN /\ Out("buttonClick", <<>>,
                   <<[op |-> "panTo", pos |-> markerPos[userLocationMarker]]>>,
                   <<>>)
            /\ UNCHANGED buttonVars
       ELSE IF ~geolocation
       THEN /\ Out("buttonClick", <<>>, <<>>, <<>>)
            /\ UNCHANGED buttonVars
       ELSE /\ locationButton' = "disabled"
            /\ pendingButton' = pendingButton + 1
            /\ Out("buttonClick", <<>>, <<>>, <<>>)
    /\ UNCHANGED <<propVars, viewVars, widgetVars, markerVars, geoVars,
                   countVars>>

\* success callback of the control's getCurrentPosition
ButtonFix(pos) ==
    /\ pendingButton > 0
    /\ pendingButton' = pendingButton - 1
    /\ locationButton' = "enabled"
    /\ Out("buttonFix", <<>>, <<[op |-> "panTo", pos |-> pos]>>, <<>>)
    /\ UNCHANGED <<propVars, viewVars, widgetVars, markerVars, geoVars,
                   countVars>>

\* the error callback forgets to re-enable the control
ButtonError_staysDisabled ==
    /\ pendingButton > 0
    /\ pendingButton' = pendingButton - 1
    /\ UNCHANGED locationButton
    /\ Out("buttonError", <<>>, <<>>, <<>>)
    /\ UNCHANGED <<propVars, viewVars, widgetVars, markerVars, geoVars,
                   countVars>>

\* error callback of the control's getCurrentPosition
ButtonError ==
    /\ pendingButton > 0
    /\ pendingButton' = pendingButton - 1
    /\ locationButton' = "enabled"
    /\ Out("buttonError", <<>>, <<>>, <<>>)
    /\ UNCHANGED <<propVars, viewVars, widgetVars, markerVars, geoVars,
                   countVars>>

----------------------------------------------------------------------------
(* Imperative handle                                                       *)

\* pitch read from the heading instead of the tilt
getCamera_pitchFromHeading ==
    [center   |-> [latitude  |-> IF instance = "null" THEN 0
                                 ELSE widget.center.lat,
                   longitude |-> IF instance = "null" THEN 0
                                 ELSE widget.center.lng],
     pitch    |-> IF instance = "null" THEN 0 ELSE widget.heading,
     altitude |-> 0,
     heading  |-> IF instance = "null" THEN 0 ELSE widget.heading,
     zoom     |-> IF instance = "null" THEN 0 ELSE widget.zoom]

\* getCamera()
getCamera ==
    [center   |-> [latitude  |-> IF instance = "null" THEN 0
                                 ELSE widget.center.lat,
                   longitude |-> IF instance = "null" THEN 0
                                 ELSE widget.center.lng],
     pitch    |-> IF instance = "null" THEN 0 ELSE widget.tilt,
     altitude |-> 0,
     heading  |-> IF instance = "null" THEN 0 ELSE widget.heading,
     zoom     |-> IF instance = "null" THEN 0 ELSE widget.zoom]

\* the caller invokes ref.getCamera()
GetCamera ==
    /\ mounted
    /\ Out("getCamera", <<>>, <<>>, <<getCamera>>)
    /\ UNCHANGED <<propVars, viewVars, widgetVars, markerVars, geoVars,
                   buttonVars, countVars>>

\* cameras the caller passes: a field is <<>> when the caller left it out
Cam(c, p, h, z, a) ==
    [center |-> c, pitch |-> p, heading |-> h, zoom |-> z, altitude |-> a]

Cameras ==
    { Cam(<<[latitude |-> 10 * Unit, longitude |-> 20 * Unit]>>,
          <<45>>, <<90>>, <<4>>, <<0>>),
      Cam(<<[latitude |-> 48 * Unit, longitude |-> 2 * Unit]>>,
          <<>>, <<>>, <<>>, <<>>),
      Cam(<<>>, <<>>, <<>>, <<11>>, <<>>) }

\* the argument is built before the receiver is tested for null
moveCameraThrows_eagerArgument(camera) == camera.center = <<>>

\* center.latitude on a camera without center is a TypeError; the argument
\* of instance.current?.moveCamera(...) is evaluated only when the
\* instance is set
moveCameraThrows(camera) == instance # "null" /\ camera.center = <<>>

\* instance.current?.moveCamera({center: {lat, lng}, ...others})
moveCameraOps(camera) ==
    IF instance = "null" THEN <<>>
    ELSE <<[op |-> "moveCamera",
            options |-> [center   |-> [lat |-> camera.center[1].latitude,
                                       lng |-> camera.center[1].longitude],
                         pitch    |-> camera.pitch,
                         heading  |-> camera.heading,
                         zoom     |-> camera.zoom,
                         altitude |-> camera.altitude]]>>

\* the caller invokes ref.animateCamera(camera)
AnimateCamera(camera) ==
    /\ mounted
    /\ IF moveCameraThrows(camera)
       THEN /\ threw' = TRUE
            /\ Out("animateCamera", <<>>, <<>>, <<>>)
       ELSE /\ UNCHANGED threw
            /\ Out("animateCamera", <<>>, moveCameraOps(camera), <<>>)
    /\ UNCHANGED <<variant, mounted, callbacks, region, initialRegion,
                   showsUserLocation, showsMyLocationButton, customMapStyle,
                   geolocation, optionVars, viewVars, widgetVars, markerVars,
                   geoVars, buttonVars, countVars>>

\* the caller invokes ref.setCamera(camera)
SetCamera(camera) ==
    /\ mounted
    /\ IF moveCameraThrows(camera)
       THEN /\ threw' = TRUE
            /\ Out("setCamera", <<>>, <<>>, <<>>)
       ELSE /\ UNCHANGED threw
            /\ Out("setCamera", <<>>, moveCameraOps(camera), <<>>)
    /\ UNCHANGED <<variant, mounted, callbacks, region, initialRegion,
                   showsUserLocation, showsMyLocationButton, customMapStyle,
                   geolocation, optionVars, viewVars, widgetVars, markerVars,
                   geoVars, buttonVars, countVars>>

\* the region applied in full: the zoom is set as well
animateToRegionOps_withZoom(r) ==
    IF instance = "null" THEN <<>>
    ELSE <<[op |-> "panTo",
            pos |-> [lat |-> r.latitude, lng |-> r.longitude]],
           [op |-> "setZoom", zoom |-> calcZoom(r.longitudeDelta)]>>

\* instance.current?.panTo({lat: region.latitude, lng: region.longitude})
animateToRegionOps(r) ==
    IF instance = "null" THEN <<>>
    ELSE <<[op |-> "panTo",
            pos |-> [lat |-> r.latitude, lng |-> r.longitude]]>>

\* the pan done through the held state instead of the widget
AnimateToRegion_viaState(r) ==
    /\ mounted
    /\ center' = [lat |-> r.latitude, lng |-> r.longitude]
    /\ zoom' = calcZoom(r.longitudeDelta)
    /\ Out("animateToRegion", <<>>, <<>>, <<>>)
    /\ UNCHANGED <<propVars, deltaRatio, widgetVars, markerVars, geoVars,
                   buttonVars, countVars>>

\* the caller invokes ref.animateToRegion(region)
AnimateToRegion(r) ==
    /\ mounted
    /\ Out("animateToRegion", <<>>, animateToRegionOps(r), <<>>)
    /\ UNCHANGED <<propVars, viewVars, widgetVars, markerVars, geoVars,
                   buttonVars, countVars>>

----------------------------------------------------------------------------
(* Specifications                                                          *)

Init ==
    InitFrom({"A", "B"}, CallbackSets, OptRegions, OptRegions,
             BOOLEAN, BOOLEAN, BOOLEAN, BOOLEAN)

Next ==
    \/ OnLoad
    \/ OnZoomChanged
    \/ OnIdle
    \/ OnDrag
    \/ OnClick
    \/ OnDblClick
    \/ WidgetGesture
    \/ \E r \in OptRegions : SetRegion(r)
    \/ \E r \in OptRegions : SetInitialRegion(r)
    \/ \E b \in BOOLEAN : SetShowsUserLocation(b)
    \/ Unmount
    \/ \E pos \in Positions : OneShotFix(pos)
    \/ OneShotError
    \/ \E pos \in Positions : WatchFix(pos)
    \/ WatchError
    \/ ButtonClick
    \/ \E pos \in Positions : ButtonFix(pos)
    \/ ButtonError
    \/ GetCamera
    \/ \E camera \in Cameras : AnimateCamera(camera)
    \/ \E camera \in Cameras : SetCamera(camera)
    \/ \E r \in Regions : AnimateToRegion(r)
    \/ \E z \in MinZoom..MaxZoom : WidgetZoom(z)
    \/ \E p \in ProvideOptions : SetProvideOptions(p)
    \/ \E b \in BOOLEAN : SetZoomEnabled(b)
    \/ \E p \in ProvideOptions : SiblingRender(p)

Spec == Init /\ [][Next]_vars

\* Event mediator: the widget's event stream against one set of props
InitMediator ==
    InitFrom({"A", "B"}, CallbackSets, {<<>>}, OptRegions,
             {FALSE}, {FALSE}, BOOLEAN, {TRUE})

NextMediator ==
    \/ OnLoad
    \/ OnZoomChanged
    \/ OnIdle
    \/ OnDrag
    \/ OnClick
    \/ OnDblClick
    \/ WidgetGesture

SpecMediator == InitMediator /\ [][NextMediator]_vars

\* Location overlay: marker, watch, one-shot requests, locate-me control
InitLocation ==
    InitFrom({"A", "B"}, {{}}, {<<>>}, {<<>>},
             BOOLEAN, BOOLEAN, {FALSE}, BOOLEAN)

NextLocation ==
    \/ OnLoad
    \/ \E b \in BOOLEAN : SetShowsUserLocation(b)
    \/ Unmount
    \/ \E pos \in Positions : OneShotFix(pos)
    \/ OneShotError
    \/ \E pos \in Positions : WatchFix(pos)
    \/ WatchError
    \/ ButtonClick
    \/ \E pos \in Positions : ButtonFix(pos)
    \/ ButtonError

SpecLocation == InitLocation /\ [][NextLocation]_vars

\* Viewport state holder: region and initialRegion prop changes
InitViewport ==
    InitFrom({"A", "B"}, {{"onRegionChange"}}, OptRegions, OptRegions,
             {FALSE}, {FALSE}, {FALSE}, {TRUE})

NextViewport ==
    \/ \E r \in OptRegions : SetRegion(r)
    \/ \E r \in OptRegions : SetInitialRegion(r)
    \/ OnLoad
    \/ OnDrag

SpecViewport == InitViewport /\ [][NextViewport]_vars

\* Imperative handle
InitHandle ==
    InitFrom({"A", "B"}, {{}}, OptRegions, {<<>>},
             {FALSE}, {FALSE}, {FALSE}, {TRUE})

NextHandle ==
    \/ OnLoad
    \/ WidgetGesture
    \/ GetCamera
    \/ Unmount

SpecHandle == InitHandle /\ [][NextHandle]_vars

----------------------------------------------------------------------------
(* Properties of the event mediator                                        *)

\* number of invocations one reported event makes of the callback name
Expected(name) == IF name \in callbacks THEN 1 ELSE 0

\* the last step handled a zoom-changed or idle event that was not suppressed
SettleReported ==
    \/ lastEvent = "onZoomChanged" /\ instance = "map"
    \/ lastEvent = "onIdle" /\ idleCount > 1

\* C1: on a loaded component the first idle event invokes neither
\* onRegionChange nor onRegionChangeComplete, and every later idle event
\* invokes each supplied callback exactly once.
C1_IdleSuppression ==
    lastEvent = "onIdle" /\ instance = "map" =>
        /\ idleCount = 1 => lastCalls = <<>>
        /\ idleCount > 1 =>
               /\ Count(lastCalls, "onRegionChange") =
                      Expected("onRegionChange")
               /\ Count(lastCalls, "onRegionChangeComplete") =
                      Expected("onRegionChangeComplete")
               /\ Len(lastCalls) = Expected("onRegionChange")
                                   + Expected("onRegionChangeComplete")

\* two idle events after load, nothing else: one pair of invocations in all
C1_Witness ==
    /\ lastEvent = "onIdle" /\ instance = "map"
    /\ idleCount = 2 /\ nEvents = 2
    /\ nRegionChange = 1 /\ nRegionChangeComplete = 1

\* C2: zoom-changed events handled before the load handler produce no
\* invocation of onRegionChange or onRegionChangeComplete, however many
\* there are; one handled after load invokes each supplied callback once.
C2_ZoomChangedBeforeLoad ==
    /\ lastEvent = "onZoomChanged" =>
           IF instance = "null"
           THEN lastCalls = <<>>
           ELSE /\ Count(lastCalls, "onRegionChange") =
                       Expected("onRegionChange")
                /\ Count(lastCalls, "onRegionChangeComplete") =
                       Expected("onRegionChangeComplete")
                /\ Len(lastCalls) = Expected("onRegionChange")
                                    + Expected("onRegionChangeComplete")
    /\ instance = "null" /\ idleCount = 0 /\ nDrag = 0 =>
           nRegionChange = 0 /\ nRegionChangeComplete = 0

\* two zoom-changed events before load, then one after load
C2_Witness ==
    /\ lastEvent = "onZoomChanged" /\ instance = "map"
    /\ nEvents = 3 /\ idleCount = 0 /\ nDrag = 0
    /\ nSettled = 1
    /\ nRegionChange = 1 /\ nRegionChangeComplete = 1

\* C3: a reported settle event invokes onRegionChange before
\* onRegionChangeComplete with nothing in between, both with the region
\* read from the widget and the marker {isGesture: true}.
C3_SettleOrdering ==
    SettleReported =>
        /\ \A i \in DOMAIN lastCalls :
               /\ lastCalls[i].cb \in {"onRegionChange",
                                       "onRegionChangeComplete"}
               /\ lastCalls[i].isGesture = TRUE
               /\ lastCalls[i].region = lastCalls[1].region
               /\ instance = "map" =>
                      /\ lastCalls[i].region.latitude = widget.center.lat
                      /\ lastCalls[i].region.longitude = widget.center.lng
                      /\ lastCalls[i].region.longitudeDelta =
                             WorldWidth \div (2^(widget.zoom))
        /\ {"onRegionChange", "onRegionChangeComplete"} \subseteq callbacks =>
               /\ Len(lastCalls) = 2
               /\ lastCalls[1].cb = "onRegionChange"
               /\ lastCalls[2].cb = "onRegionChangeComplete"

\* a reported zoom-changed event on a loaded widget, both callbacks supplied
C3_Witness ==
    /\ lastEvent = "onZoomChanged" /\ instance = "map"
    /\ Len(lastCalls) = 2
    /\ lastCalls[1].cb = "onRegionChange"
    /\ lastCalls[1].region.latitude = 48 * Unit

\* C4: a drag event invokes onRegionChange once with the current region and
\* never onRegionChangeComplete; the number of onRegionChangeComplete
\* invocations is the number of non-suppressed zoom-changed and idle events.
C4_DragOnlyRegionChange ==
    /\ lastEvent = "onDrag" =>
           /\ Count(lastCalls, "onRegionChange") = Expected("onRegionChange")
           /\ Count(lastCalls, "onRegionChangeComplete") = 0
           /\ Len(lastCalls) = Expected("onRegionChange")
           /\ \A i \in DOMAIN lastCalls :
                  /\ lastCalls[i].region = getCurrentRegion
                  /\ lastCalls[i].isGesture = TRUE
    /\ nRegionChangeComplete = nSettled * Expected("onRegionChangeComplete")

\* two drags and one reported settle: one onRegionChangeComplete in all
C4_Witness ==
    /\ lastEvent = "onDrag" /\ instance = "map"
    /\ nDrag = 2 /\ nSettled = 1
    /\ nRegionChange = 3 /\ nRegionChangeComplete = 1

----------------------------------------------------------------------------
(* Properties of the location overlay                                      *)

FixEvents == {"oneShotFix", "watchFix"}

\* what a successful fix does to the marker
FixStep ==
    lastEvent' \in FixEvents =>
        IF userLocationMarker = 0
        THEN instance = "map" =>
                 /\ markersCreated' = markersCreated + 1
                 /\ userLocationMarker' = markersCreated'
                 /\ attached' = {userLocationMarker'}
                 /\ widgetOps'[1].op = "new Marker"
                 /\ markerPos'[userLocationMarker'] = widgetOps'[1].pos
        ELSE /\ markersCreated' = markersCreated
             /\ userLocationMarker' = userLocationMarker
             /\ attached' = attached
             /\ widgetOps'[1].op = "Marker.setPosition"
             /\ markerPos'[userLocationMarker] = widgetOps'[1].pos

\* C5: at most one location marker exists at any time, for any interleaving
\* of one-shot and watch fixes: the first fix creates the marker, every
\* later fix repositions that marker and creates none.
C5_SingleMarker ==
    /\ [](/\ Cardinality(attached) <= 1
          /\ attached = IF userLocationMarker = 0 THEN {}
                        ELSE {userLocationMarker})
    /\ [][FixStep]_vars

\* feature enabled and loaded: the one-shot fix and a watch fix both
\* arrived, one marker was created and then repositioned
C5_Witness ==
    /\ mounted /\ showsUserLocation /\ instance = "map"
    /\ lastEvent = "watchFix"
    /\ oneShotsIssued = 1 /\ pendingOneShot = 0
    /\ markersCreated = 1 /\ attached = {1}
    /\ widgetOps # <<>> /\ widgetOps[1].op = "Marker.setPosition"
    /\ markerPos[1] = [lat |-> 10 * Unit, lng |-> 20 * Unit]

\* C6: after showsUserLocation is turned off or the component is torn down
\* no location marker is attached to the widget, also when a fix of the
\* one-shot request issued earlier arrives afterwards.
C6_NoMarkerAfterDisable ==
    ~showsUserLocation \/ ~mounted => attached = {}

\* the feature is enabled exactly when all four conditions hold
TrackingEnabled ==
    mounted /\ showsUserLocation /\ geolocation /\ instance = "map"

\* requests are started exactly by the step that enables tracking
EnableStep ==
    IF TrackingEnabled' /\ ~TrackingEnabled
    THEN /\ watchesStarted' = watchesStarted + 1
         /\ oneShotsIssued' = oneShotsIssued + 1
         /\ pendingOneShot' = pendingOneShot + 1
         /\ watches' = {watchesStarted'}
    ELSE /\ watchesStarted' = watchesStarted
         /\ oneShotsIssued' = oneShotsIssued

\* C7: at most one geolocation watch is active, and one is active exactly
\* when the component is mounted, showsUserLocation is on, geolocation is
\* available and the widget has loaded; nothing is requested before load,
\* enabling starts one one-shot request and one watch, and every disabling
\* path clears the watch.
C7_WatchLifecycle ==
    /\ [](/\ Cardinality(watches) <= 1
          /\ watches # {} <=> TrackingEnabled
          /\ watches # {} => watches = {watchId}
          /\ instance = "null" =>
                 watchesStarted = 0 /\ oneShotsIssued = 0
                 /\ pendingOneShot = 0)
    /\ [][EnableStep]_vars

\* the watch of the first enabling was cleared, a second enabling runs
C7_Witness ==
    /\ TrackingEnabled
    /\ watchesStarted = 2 /\ watches = {2}
    /\ oneShotsIssued = 2

----------------------------------------------------------------------------
(* Properties of the viewport state holder                                 *)

\* C8: a change of the region prop to a region R overwrites the held view
\* state: center = {R.latitude, R.longitude}, zoom =
\* calcZoom(R.longitudeDelta), delta ratio = R.latitudeDelta /
\* R.longitudeDelta.
C8_RegionOverwrite ==
    lastEvent = "setRegion" /\ region # <<>> =>
        /\ center = [lat |-> region[1].latitude, lng |-> region[1].longitude]
        /\ zoom = calcZoom(region[1].longitudeDelta)
        /\ deltaRatio = Ratio(region[1].latitudeDelta,
                              region[1].longitudeDelta)

\* C9: a change of the initialRegion prop alone leaves center, zoom and the
\* cached delta ratio unchanged.
C9_InitialRegionOnce ==
    [][lastEvent' = "setInitialRegion" =>
           UNCHANGED <<center, zoom, deltaRatio>>]_vars

----------------------------------------------------------------------------
(* Properties of the imperative handle                                     *)

ZeroCamera ==
    [center |-> [latitude |-> 0, longitude |-> 0],
     pitch |-> 0, altitude |-> 0, heading |-> 0, zoom |-> 0]

\* C10: getCamera never fails; before load it returns the all-zero camera,
\* after load the widget's live center, tilt (as pitch), heading and zoom,
\* and the altitude is 0 in every state.
C10_GetCamera ==
    lastEvent = "getCamera" =>
        /\ ~threw
        /\ Len(lastCamera) = 1
        /\ lastCamera[1].altitude = 0
        /\ IF instance = "null"
           THEN lastCamera[1] = ZeroCamera
           ELSE /\ lastCamera[1].center =
                       [latitude  |-> widget.center.lat,
                        longitude |-> widget.center.lng]
                /\ lastCamera[1].pitch = widget.tilt
                /\ lastCamera[1].heading = widget.heading
                /\ lastCamera[1].zoom = widget.zoom

\* getCamera on a loaded widget that is tilted and rotated
C10_Witness ==
    /\ lastEvent = "getCamera" /\ instance = "map"
    /\ lastCamera[1].pitch = 45 /\ lastCamera[1].heading = 90
    /\ lastCamera[1].zoom = 4 /\ lastCamera[1].altitude = 0

----------------------------------------------------------------------------
(* Imperative writes                                                       *)

InitCamera ==
    InitFrom({"A", "B"}, {{}}, OptRegions, {<<>>},
             {FALSE}, {FALSE}, {FALSE}, {TRUE})

NextCamera ==
    \/ OnLoad
    \/ WidgetGesture
    \/ GetCamera
    \/ \E camera \in Cameras : AnimateCamera(camera)
    \/ \E camera \in Cameras : SetCamera(camera)
    \/ \E r \in Regions : AnimateToRegion(r)

SpecCamera == InitCamera /\ [][NextCamera]_vars

WriteEvents == {"animateCamera", "setCamera", "animateToRegion"}

\* the widget operations that move the view
ViewOps == {"panTo", "moveCamera", "setZoom", "setCenter"}

\* C11: on a loaded widget animateToRegion(R) issues exactly one panTo with
\* {lat: R.latitude, lng: R.longitude} and no other widget call, whatever
\* the deltas of R; the widget's zoom and the held zoom are not changed.
C11_AnimateToRegionPanOnly ==
    /\ [](lastEvent = "animateToRegion" /\ instance = "map" =>
              /\ Len(widgetOps) = 1
              /\ widgetOps[1].op = "panTo"
              /\ \E r \in Regions :
                     widgetOps[1].pos = [lat |-> r.latitude,
                                         lng |-> r.longitude])
    /\ [][lastEvent' = "animateToRegion" => UNCHANGED <<widget, zoom>>]_vars

\* animateToRegion({10, 20, 40 x 20}) on a loaded widget showing another view
C11_Witness ==
    /\ lastEvent = "animateToRegion" /\ instance = "map"
    /\ widgetOps = <<[op |-> "panTo",
                      pos |-> [lat |-> 10 * Unit, lng |-> 20 * Unit]]>>
    /\ widget.zoom = 21

\* C12: before the widget has loaded animateCamera, setCamera and
\* animateToRegion are dropped: no error, no widget operation, no change of
\* component state, and the load handler does not replay them.
C12_WritesDroppedBeforeLoad ==
    /\ [][lastEvent' \in WriteEvents /\ instance = "null" =>
              /\ threw' = threw
              /\ widgetOps' = <<>>
              /\ lastCalls' = <<>>
              /\ UNCHANGED <<propVars, viewVars, widgetVars, markerVars,
                             geoVars, buttonVars, countVars>>]_vars
    /\ [](lastEvent = "onLoad" =>
              \A i \in DOMAIN widgetOps : widgetOps[i].op \notin ViewOps)

\* setCamera called on a component whose widget has not loaded
C12_Witness ==
    /\ lastEvent = "setCamera" /\ instance = "null"
    /\ widgetOps = <<>> /\ ~threw

\* C13: on a loaded widget animateCamera and setCamera raise no error for a
\* partially specified camera, a camera without center included, and issue
\* one moveCamera that carries only the fields the caller specified.
C13_PartialCamera ==
    lastEvent \in {"animateCamera", "setCamera"} /\ instance = "map" =>
        /\ ~threw
        /\ Len(widgetOps) = 1
        /\ widgetOps[1].op = "moveCamera"

----------------------------------------------------------------------------
(* Properties of the locate-me control                                     *)

\* the control is disabled exactly while its request is in flight
DisabledWhileInFlight ==
    /\ pendingButton \in {0, 1}
    /\ locationButton = "disabled" <=> pendingButton = 1

\* a click on the disabled control does nothing
DisabledClickStep ==
    lastEvent' = "buttonClick" /\ locationButton = "disabled" =>
        UNCHANGED buttonVars /\ widgetOps' = <<>>

\* completion of the request re-enables the control, after a pan on success
CompletionStep ==
    /\ lastEvent' = "buttonFix" =>
           /\ locationButton' = "enabled"
           /\ pendingButton' = pendingButton - 1
           /\ Len(widgetOps') = 1
           /\ widgetOps'[1].op = "panTo"
           /\ widgetOps'[1].pos \in Positions
    /\ lastEvent' = "buttonError" =>
           /\ locationButton' = "enabled"
           /\ pendingButton' = pendingButton - 1
           /\ widgetOps' = <<>>

\* a click on the enabled control without a marker issues one request
FreshClickStep ==
    lastEvent' = "buttonClick" /\ locationButton = "enabled"
    /\ userLocationMarker = 0 =>
        /\ locationButton' = "disabled"
        /\ pendingButton' = pendingButton + 1
        /\ widgetOps' = <<>>

\* the same, told apart by the availability of geolocation
FreshClickStepAvailable ==
    lastEvent' = "buttonClick" /\ locationButton = "enabled"
    /\ userLocationMarker = 0 =>
        /\ widgetOps' = <<>>
        /\ IF geolocation
           THEN /\ locationButton' = "disabled"
                /\ pendingButton' = pendingButton + 1
           ELSE UNCHANGED buttonVars

\* C14 as stated: the control is disabled exactly while a request it
\* issued is in flight; a click with no marker on the enabled control
\* issues one request and disables it, clicks while disabled do nothing,
\* and completion re-enables it on success (after the pan) and on failure.
C14_Original ==
    /\ []DisabledWhileInFlight
    /\ [][DisabledClickStep /\ CompletionStep /\ FreshClickStep]_vars

\* C14 as amended: the click with no marker on the enabled control issues
\* the request and disables the control when geolocation is available, and
\* does nothing when it is not.
C14_LocateMeInFlight ==
    /\ []DisabledWhileInFlight
    /\ [][DisabledClickStep /\ CompletionStep
          /\ FreshClickStepAvailable]_vars

\* the request of a click has completed with a fix: panned and re-enabled
C14_Witness ==
    /\ lastEvent = "buttonFix"
    /\ locationButton = "enabled" /\ pendingButton = 0
    /\ widgetOps = <<[op |-> "panTo",
                      pos |-> [lat |-> 48 * Unit, lng |-> 2 * Unit]]>>

\* C15: a click on the enabled control while a marker exists pans to the
\* marker's last known position, issues no geolocation request and does not
\* disable the control; a request is issued only when no marker exists.
C15_CheapPath ==
    [][/\ lastEvent' = "buttonClick" /\ locationButton = "enabled"
          /\ userLocationMarker # 0 =>
              /\ widgetOps' = <<[op |-> "panTo",
                                 pos |-> markerPos[userLocationMarker]]>>
              /\ UNCHANGED <<buttonVars, geoVars, markerVars>>
       /\ pendingButton' > pendingButton => userLocationMarker = 0]_vars

\* a click that panned to the marker placed by an earlier fix
C15_Witness ==
    /\ lastEvent = "buttonClick"
    /\ userLocationMarker # 0
    /\ locationButton = "enabled" /\ pendingButton = 0
    /\ widgetOps = <<[op |-> "panTo",
                      pos |-> markerPos[userLocationMarker]]>>

----------------------------------------------------------------------------
(* Properties of the zoom/delta converter                                  *)

\* the converter applied to every zoom level of the widget and to the
\* delta ratio of every region
InitConverter ==
    InitFrom({"A", "B"}, {{"onRegionChange"}}, OptRegions, {<<>>},
             {FALSE}, {FALSE}, {FALSE}, {TRUE})

NextConverter ==
    \/ OnLoad
    \/ \E z \in MinZoom..MaxZoom : WidgetZoom(z)
    \/ OnDrag

SpecConverter == InitConverter /\ [][NextConverter]_vars

----------------------------------------------------------------------------
(* Further properties of the event mediator and the viewport state         *)

ZeroRegion == Reg(0, 0, 0, 0)

\* C17: before load the current region reads as the all-zero region: a drag
\* handled before load passes exactly that region to onRegionChange, the
\* converter is not called on the missing zoom.
C17_ZeroRegionBeforeLoad ==
    lastEvent = "onDrag" /\ instance = "null" =>
        /\ ZoomIsNull(variant, LiveZoom)
        /\ getCurrentRegion = ZeroRegion
        /\ \A i \in DOMAIN lastCalls : lastCalls[i].region = ZeroRegion

\* every handler of the component against one set of props
InitHandlers ==
    InitFrom({"A", "B"}, {{}}, {<<>>}, {<<>>},
             {TRUE}, {TRUE}, {FALSE}, {TRUE})

NextHandlers ==
    \/ OnLoad
    \/ OnZoomChanged
    \/ OnIdle
    \/ OnDrag
    \/ OnClick
    \/ OnDblClick
    \/ \E pos \in Positions : OneShotFix(pos)
    \/ OneShotError
    \/ \E pos \in Positions : WatchFix(pos)
    \/ WatchError
    \/ ButtonClick
    \/ \E pos \in Positions : ButtonFix(pos)
    \/ ButtonError
    \/ GetCamera
    \/ \E camera \in Cameras : AnimateCamera(camera)
    \/ \E camera \in Cameras : SetCamera(camera)
    \/ \E r \in Regions : AnimateToRegion(r)
    \/ \E r \in Regions : SetRegion(<<r>>)

SpecHandlers == InitHandlers /\ [][NextHandlers]_vars

\* C18: the held center and zoom change only when the region prop changes:
\* every widget event handler, geolocation callback, locate-me click and
\* imperative handle call leaves them as they are.
C18_HeldViewFrame ==
    [][lastEvent' # "setRegion" => UNCHANGED <<center, zoom>>]_vars

\* an imperative pan on a loaded widget whose held view came from the
\* region prop
C18_Witness ==
    /\ lastEvent = "animateToRegion" /\ instance = "map"
    /\ region # <<>>
    /\ widgetOps # <<>>
    /\ center = [lat |-> region[1].latitude, lng |-> region[1].longitude]
    /\ center # widgetOps[1].pos

\* C19: when the region prop changes from a region to absent the update
\* raises no error and leaves the held center and zoom as they were.
C19_RegionRemoved ==
    [][lastEvent' = "setRegion" /\ region # <<>> /\ region' = <<>> =>
           /\ ~threw' /\ mounted'
           /\ UNCHANGED <<center, zoom>>]_vars

----------------------------------------------------------------------------
(* Properties of the widget options                                        *)

InitOptions ==
    InitFrom({"A", "B"}, {{}}, OptRegions, {<<>>},
             {FALSE}, {FALSE}, BOOLEAN, {TRUE})

NextOptions ==
    \/ \E p \in ProvideOptions : SetProvideOptions(p)
    \/ \E b \in BOOLEAN : SetZoomEnabled(b)
    \/ \E p \in ProvideOptions : SiblingRender(p)
    \/ OnLoad

SpecOptions == InitOptions /\ [][NextOptions]_vars

\* C20: computing the options never modifies the shared default options,
\* and the options handed to the widget are always the defaults overlaid
\* with the current computed values and then the current caller options, so
\* an override the caller removed is gone.
C20_OptionsFromProps ==
    /\ [](options = ComputeOptions(DEFAULT_OPTIONS, zoomEnabled,
                                   customMapStyle, provideOptions))
    /\ [][UNCHANGED defaultOptions]_vars

----------------------------------------------------------------------------
(* Outward region callbacks and load                                       *)

RegionCallbacks == {"onRegionChange", "onRegionChangeComplete"}

\* the positions of lastCalls that are outward region callbacks
RegionCallsOfStep == {i \in DOMAIN lastCalls : lastCalls[i].cb \in RegionCallbacks}

\* C21 as stated: no onRegionChange or onRegionChangeComplete is invoked
\* before the load handler has recorded the widget instance.
C21_Original == RegionCallsOfStep # {} => instance = "map"

\* C21: only the zoom-changed handler and the first idle are silent before
\* load. A region callback invoked before load comes from a drag (then it
\* is onRegionChange alone) or from an idle after the first one, and it
\* carries the latitude and longitude 0 of the unloaded widget.
C21_CallbacksBeforeLoad ==
    instance = "null" /\ RegionCallsOfStep # {} =>
        /\ \/ /\ lastEvent = "onDrag"
              /\ \A i \in RegionCallsOfStep :
                     lastCalls[i].cb = "onRegionChange"
           \/ /\ lastEvent = "onIdle"
              /\ idleCount >= 2
        /\ \A i \in RegionCallsOfStep :
               /\ lastCalls[i].region.latitude = 0
               /\ lastCalls[i].region.longitude = 0

C21_Witness ==
    /\ instance = "null"
    /\ lastEvent = "onIdle"
    /\ Len(lastCalls) = 2
    /\ RegionCallsOfStep = {1, 2}

====
